---- MODULE Spec2Model ----
(***************************************************************************)
(* Signaling sessions and frame processing of the WebRTC object-detection  *)
(* server (src/server/main.py): WebRTCServer, VideoProcessor, and the      *)
(* conversion of output tensors to detections, ObjectDetector.postprocess. *)
(*                                                                         *)
(* One handle_websocket coroutine runs per connection and handles the      *)
(* messages of that connection one after the other; every video track of   *)
(* a peer connection gets its own process_video_track coroutine.  The      *)
(* external capabilities (RTCPeerConnection, the track, the inference      *)
(* session, the websocket) are opaque: each call either returns or raises, *)
(* chosen nondeterministically.                                            *)
(***************************************************************************)
EXTENDS Integers, Sequences, FiniteSets, TLC

\* ---- bounds of the model ------------------------------------------------
MaxConns  == 2      \* websocket connections accepted over a run
MaxMsgs   == 4      \* messages handled over a run
MaxPcs    == 2      \* RTCPeerConnection objects created over a run
MaxLoops  == 2      \* process_video_track coroutines started over a run
MaxFrames == 4      \* frames pulled from the tracks over a run
MaxSent   == 3      \* messages sent to the clients over a run
MaxClock  == 1      \* latest reading of the clock
MaxRows   == 2      \* candidate rows of an output tensor

\* ---- program constants --------------------------------------------------
QueueMaxSize == 5   \* asyncio.Queue(maxsize=5)
SelectEvery  == 2   \* frame_count % 2 == 0
SelfProcessor == 1  \* the VideoProcessor object held in WebRTCServer.processor
Unit         == 10  \* tensor values and thresholds are counted in tenths
DefaultThreshold == 5   \* conf_threshold: float = 0.5
InputSize    == 320 \* input_size: int = 320
NumClasses   == 80  \* len(self.class_names)

Conns == 1..MaxConns

VARIABLES
    handler,                \* position of handle_websocket per connection
    received,               \* messages taken from the websockets so far
    last,                   \* the type of the latest of them
    websocket_connections,  \* keys of WebRTCServer.websocket_connections
    peer_connections,       \* WebRTCServer.peer_connections: connection id -> pc
    pcs,                    \* the RTCPeerConnection objects created per connection
    loops,                  \* the process_video_track coroutines per connection
    out,                    \* messages sent on each websocket, in order
    frame_queue,            \* VideoProcessor.frame_queue of self.processor
    processing,             \* VideoProcessor.processing of self.processor
    now,                    \* latest reading of time.time(), in milliseconds
    outputs,                \* postprocess: the list of output tensors
    conf_threshold,         \* postprocess: the threshold, in tenths
    detections,             \* postprocess: the list it returns
    returned,               \* postprocess has returned
    raised                  \* postprocess has ended with an exception

vars == <<handler, received, last, websocket_connections, peer_connections,
          pcs, loops, out, frame_queue, processing, now,
          outputs, conf_threshold, detections, returned, raised>>

\* the variables of a call of postprocess
call == <<outputs, conf_threshold, detections, returned, raised>>

\* the variables of the server
server == <<handler, received, last, websocket_connections, peer_connections,
            pcs, loops, out, frame_queue, processing, now>>

\* ---- helpers ------------------------------------------------------------
RECURSIVE SumTo(_, _)
\* f[1] + ... + f[n]
SumTo(f, n) == IF n = 0 THEN 0 ELSE f[n] + SumTo(f, n - 1)

\* dict assignment d[k] = v
DictSet(d, k, v) == [x \in (DOMAIN d) \cup {k} |-> IF x = k THEN v ELSE d[x]]

\* del d[k]
DictDel(d, k) == [x \in (DOMAIN d) \ {k} |-> d[x]]

\* pc = RTCPeerConnection()
NewPc == [closed |-> FALSE, remote |-> FALSE, ice |-> 0]

\* state of a process_video_track coroutine at its first statement, for a
\* track of the p-th peer connection of its websocket
NewLoop(p) == [pc |-> p, frame_count |-> 0, selected |-> << >>,
               status |-> "running", cause |-> "none", proc |-> 0]

\* A message handed to websocket.send.  conn is the connection of the
\* handle_offer call whose peer connection the content comes from.
\* frame_ts is the capture time the remote client attached to the frame a
\* result was computed from.
AnswerMsg(c) == [type |-> "answer", conn |-> c, frame_id |-> 0, frame_ts |-> 0,
                 capture_ts |-> 0, recv_ts |-> 0, inference_ts |-> 0]

IceMsg(c) == [type |-> "ice_candidate", conn |-> c, frame_id |-> 0, frame_ts |-> 0,
              capture_ts |-> 0, recv_ts |-> 0, inference_ts |-> 0]

\* the payload built by process_frame for frame frame_count
ResultMsg(c, frame_count, frame_ts, capture_ts, recv_ts, inference_ts) ==
    [type |-> "detection_result", conn |-> c, frame_id |-> frame_count,
     frame_ts |-> frame_ts, capture_ts |-> capture_ts, recv_ts |-> recv_ts,
     inference_ts |-> inference_ts]

\* messages sent so far on all websockets
MessagesSent == SumTo([c \in Conns |-> Len(out[c])], MaxConns)

\* a send that goes to every registered websocket
Send_Broadcast(c, msg) ==
    /\ MessagesSent < MaxSent
    /\ out' = [x \in Conns |-> IF x \in websocket_connections
                              THEN Append(out[x], msg) ELSE out[x]]

\* await websocket.send(json.dumps(msg)) on the websocket of connection c
Send(c, msg) ==
    /\ MessagesSent < MaxSent
    /\ out' = [out EXCEPT ![c] = Append(@, msg)]

\* the loops of connection c that have not left their while loop
RunningLoops(c) == {l \in 1..Len(loops[c]) : loops[c][l].status = "running"}

\* The session state of the specification, read off the server's tables (the
\* server keeps no state of its own for an answer it has handled).
SessionState(c) ==
    IF handler[c] = "absent" THEN "NONE"
    ELSE IF handler[c] = "done" THEN "CLOSED"
    ELSE IF RunningLoops(c) # {} THEN "STREAMING"
    ELSE IF c \notin DOMAIN peer_connections THEN "IDLE"
    ELSE "OFFER_RECEIVED"

\* ---- handle_websocket ---------------------------------------------------
ServerInit ==
    /\ handler = [c \in Conns |-> "absent"]
    /\ received = 0
    /\ last = "none"
    /\ websocket_connections = {}
    /\ peer_connections = << >>
    /\ pcs = [c \in Conns |-> << >>]
    /\ loops = [c \in Conns |-> << >>]
    /\ out = [c \in Conns |-> << >>]
    /\ frame_queue = << >>
    /\ processing = FALSE
    /\ now = 0

\* the server after construction; no call of postprocess is looked at
Init ==
    /\ ServerInit
    /\ outputs = << >>
    /\ conf_threshold = DefaultThreshold
    /\ detections = << >>
    /\ returned = FALSE
    /\ raised = FALSE

\* handle_websocket up to the message loop; connections are numbered in the
\* order in which they are accepted
Connect(c) ==
    /\ handler[c] = "absent"
    /\ \A x \in 1..(c - 1) : handler[x] # "absent"
    /\ handler' = [handler EXCEPT ![c] = "open"]
    /\ websocket_connections' = websocket_connections \cup {c}
    /\ UNCHANGED <<received, last, peer_connections, pcs, loops, out,
                   frame_queue, processing, now, call>>

\* a finally block that empties both tables instead of deleting the entries
\* of its own connection
Finally_ClearAll(c, pcmap, pcseq) ==
    /\ websocket_connections' = {}
    /\ pcs' = [x \in Conns |->
                 [p \in 1..Len(pcseq[x]) |->
                    IF x \in DOMAIN pcmap /\ pcmap[x] = p
                      THEN [pcseq[x][p] EXCEPT !.closed = TRUE]
                      ELSE pcseq[x][p]]]
    /\ peer_connections' = << >>
    /\ handler' = [handler EXCEPT ![c] = "done"]

\* the finally block of handle_websocket, run on the tables pcmap and pcseq
\* that the interrupted handler left behind
Finally(c, pcmap, pcseq) ==
    /\ websocket_connections' = websocket_connections \ {c}
    /\ IF c \in DOMAIN pcmap
         THEN /\ pcs' = [pcseq EXCEPT ![c][pcmap[c]].closed = TRUE]
              /\ peer_connections' = DictDel(pcmap, c)
         ELSE /\ pcs' = pcseq
              /\ peer_connections' = pcmap
    /\ handler' = [handler EXCEPT ![c] = "done"]

\* a message can be taken from the websocket
CanReceive(c) == handler[c] = "open" /\ received < MaxMsgs

\* async for message in websocket: the next message has the given type
Received(c, type) ==
    /\ received' = received + 1
    /\ last' = type

\* the transport closes: the message loop ends (or ConnectionClosed is caught)
Close(c) ==
    /\ handler[c] = "open"
    /\ Finally(c, peer_connections, pcs)
    /\ UNCHANGED <<received, last, loops, out, frame_queue, processing, now, call>>

\* json.loads(message) raises: the exception leaves handle_websocket
BadMessage(c) ==
    /\ CanReceive(c)
    /\ Received(c, "undecodable")
    /\ Finally(c, peer_connections, pcs)
    /\ UNCHANGED <<loops, out, frame_queue, processing, now, call>>

\* ---- handle_message and the handlers it dispatches to ----------------------
\* peer connections created so far
PcsCreated == SumTo([c \in Conns |-> Len(pcs[c])], MaxConns)

\* handle_offer storing the peer connection in the table only after the
\* negotiation has succeeded
HandleOffer_RegisterLate(c) ==
    /\ CanReceive(c)
    /\ PcsCreated < MaxPcs
    /\ Received(c, "offer")
    /\ LET p == Len(pcs[c]) + 1
           pcmap == DictSet(peer_connections, c, p)
       IN \E accept \in BOOLEAN :
            IF accept
              THEN /\ pcs' = [pcs EXCEPT ![c] = Append(@, [NewPc EXCEPT !.remote = TRUE])]
                   /\ peer_connections' = pcmap
                   /\ Send(c, AnswerMsg(c))
                   /\ UNCHANGED <<handler, websocket_connections>>
              ELSE /\ Finally(c, peer_connections, [pcs EXCEPT ![c] = Append(@, NewPc)])
                   /\ UNCHANGED out
    /\ UNCHANGED <<loops, frame_queue, processing, now, call>>

\* handle_offer; accept is the outcome of setRemoteDescription, createAnswer
\* and setLocalDescription (a raise leaves handle_websocket through finally)
HandleOffer(c) ==
    /\ CanReceive(c)
    /\ PcsCreated < MaxPcs
    /\ Received(c, "offer")
    /\ LET p == Len(pcs[c]) + 1
           pcmap == DictSet(peer_connections, c, p)
       IN \E accept \in BOOLEAN :
            IF accept
              THEN /\ pcs' = [pcs EXCEPT ![c] = Append(@, [NewPc EXCEPT !.remote = TRUE])]
                   /\ peer_connections' = pcmap
                   /\ Send(c, AnswerMsg(c))
                   /\ UNCHANGED <<handler, websocket_connections>>
              ELSE /\ Finally(c, pcmap, [pcs EXCEPT ![c] = Append(@, NewPc)])
                   /\ UNCHANGED out
    /\ UNCHANGED <<loops, frame_queue, processing, now, call>>

\* handle_answer looking the peer connection up without the membership test:
\* the KeyError of a connection without one leaves handle_websocket
HandleAnswer_Unguarded(c) ==
    /\ CanReceive(c)
    /\ Received(c, "answer")
    /\ \E accept \in BOOLEAN :
         IF c \in DOMAIN peer_connections /\ accept
           THEN UNCHANGED <<handler, websocket_connections, peer_connections, pcs>>
           ELSE Finally(c, peer_connections, pcs)
    /\ UNCHANGED <<loops, out, frame_queue, processing, now, call>>

\* handle_answer; accept is the outcome of pc.setRemoteDescription
HandleAnswer(c) ==
    /\ CanReceive(c)
    /\ Received(c, "answer")
    /\ IF c \in DOMAIN peer_connections
         THEN \E accept \in BOOLEAN :
                IF accept
                  THEN UNCHANGED <<handler, websocket_connections,
                                   peer_connections, pcs>>
                  ELSE Finally(c, peer_connections, pcs)
         ELSE UNCHANGED <<handler, websocket_connections, peer_connections, pcs>>
    /\ UNCHANGED <<loops, out, frame_queue, processing, now, call>>

\* handle_ice_candidate; accept is the outcome of pc.addIceCandidate
HandleIceCandidate(c) ==
    /\ CanReceive(c)
    /\ Received(c, "ice_candidate")
    /\ IF c \in DOMAIN peer_connections
         THEN \E accept \in BOOLEAN :
                IF accept
                  THEN /\ pcs' = [pcs EXCEPT ![c][peer_connections[c]].ice = @ + 1]
                       /\ UNCHANGED <<handler, websocket_connections,
                                      peer_connections>>
                  ELSE Finally(c, peer_connections, pcs)
         ELSE UNCHANGED <<handler, websocket_connections, peer_connections, pcs>>
    /\ UNCHANGED <<loops, out, frame_queue, processing, now, call>>

\* start_receiving: logs only
StartReceiving(c) ==
    /\ CanReceive(c)
    /\ Received(c, "start_receiving")
    /\ UNCHANGED <<handler, websocket_connections, peer_connections, pcs,
                   loops, out, frame_queue, processing, now, call>>

\* handle_message ending in an else branch that raises on a type it does not
\* know
UnknownMessage_Raises(c) ==
    /\ CanReceive(c)
    /\ Received(c, "other")
    /\ Finally(c, peer_connections, pcs)
    /\ UNCHANGED <<loops, out, frame_queue, processing, now, call>>

\* handle_message with a type none of the branches matches
UnknownMessage(c) ==
    /\ CanReceive(c)
    /\ Received(c, "other")
    /\ UNCHANGED <<handler, websocket_connections, peer_connections, pcs,
                   loops, out, frame_queue, processing, now, call>>

\* ---- the track event and process_video_track ------------------------------
\* processing loops started so far
LoopsStarted == SumTo([c \in Conns |-> Len(loops[c])], MaxConns)

\* a track event can be delivered to the p-th peer connection of connection c
CanAnnounce(c, p) ==
    /\ p \in 1..Len(pcs[c])
    /\ pcs[c][p].remote /\ ~pcs[c][p].closed

\* on_track without the test of track.kind
OnTrack_AnyKind(c, p, kind) ==
    /\ CanAnnounce(c, p)
    /\ LoopsStarted < MaxLoops
    /\ loops' = [loops EXCEPT ![c] = Append(@, NewLoop(p))]
    /\ UNCHANGED <<handler, received, last, websocket_connections,
                   peer_connections, pcs, out, frame_queue, processing, now, call>>

\* on_track of the p-th peer connection of connection c, for a track of the
\* given kind
OnTrack(c, p, kind) ==
    /\ CanAnnounce(c, p)
    /\ IF kind = "video"
         THEN /\ LoopsStarted < MaxLoops
              /\ loops' = [loops EXCEPT ![c] = Append(@, NewLoop(p))]
         ELSE UNCHANGED loops
    /\ UNCHANGED <<handler, received, last, websocket_connections,
                   peer_connections, pcs, out, frame_queue, processing, now, call>>

\* on_icecandidate of the p-th peer connection of connection c; candidate is
\* FALSE for the None that ends the gathering.  A send on a websocket whose
\* handler has ended raises inside the event handler and changes nothing.
OnIceCandidate(c, p, candidate) ==
    /\ CanAnnounce(c, p)
    /\ IF candidate /\ handler[c] = "open"
         THEN Send(c, IceMsg(c))
         ELSE UNCHANGED out
    /\ UNCHANGED <<handler, received, last, websocket_connections,
                   peer_connections, pcs, loops, frame_queue, processing, now, call>>

\* frames pulled so far by all loops
FramesPulled ==
    SumTo([c \in Conns |-> SumTo([l \in 1..Len(loops[c]) |-> loops[c][l].frame_count],
                                 Len(loops[c]))], MaxConns)

\* the selection test off by one: frames 1, 3, ... are taken
Selected_Odd(frame_count) == frame_count % SelectEvery = 1

\* frame_count % 2 == 0
Selected(frame_count) == frame_count % SelectEvery = 0

\* an except clause that also closes the websocket of the loop
Except_ClosesSession(c, l, v, why) ==
    /\ loops' = [v EXCEPT ![c][l].status = "stopped", ![c][l].cause = why]
    /\ Finally(c, peer_connections, pcs)
    /\ UNCHANGED out

\* except Exception: log and break, entered from loop l of connection c with
\* the loop states v; why names the statement that raised
Except(c, l, v, why) ==
    /\ loops' = [v EXCEPT ![c][l].status = "stopped", ![c][l].cause = why]
    /\ UNCHANGED <<handler, websocket_connections, peer_connections, pcs, out>>

\* the readings time.time() can return when the latest one was t
Clock(t) == t..MaxClock

\* One iteration of the while loop of process_video_track for loop l of
\* connection c.
\*   pull     : track.recv() returns a frame (else it raises)
\*   frame_ts : the time at which the remote client captured that frame
\*   convert  : frame.to_ndarray returns
\*   detect   : detector.detect returns
\* The clock is read for capture_ts, for recv_ts and for inference_ts, and
\* never shows less than it did or than the capture time of a frame already
\* pulled.  websocket.send raises once the connection's handler has ended.
Iterate(c, l) ==
    /\ l \in 1..Len(loops[c])
    /\ loops[c][l].status = "running"
    /\ \E pull, convert, detect \in BOOLEAN :
         LET n == loops[c][l].frame_count + 1
             counted == [loops EXCEPT ![c][l].frame_count = n]
             taken == [counted EXCEPT ![c][l].selected = Append(@, n),
                                      ![c][l].proc = SelfProcessor]
         IN IF ~pull
              THEN Except(c, l, loops, "recv") /\ UNCHANGED now
            ELSE /\ FramesPulled < MaxFrames
                 /\ IF ~convert
                      THEN Except(c, l, counted, "convert") /\ UNCHANGED now
                    ELSE IF ~Selected(n)
                      THEN /\ loops' = counted
                           /\ UNCHANGED <<handler, websocket_connections,
                                          peer_connections, pcs, out, now>>
                    ELSE \E frame_ts \in 0..MaxClock :
                         \E capture_ts \in Clock(IF frame_ts > now THEN frame_ts ELSE now) :
                         \E recv_ts \in Clock(capture_ts) :
                           IF ~detect
                             THEN Except(c, l, taken, "detect") /\ now' = recv_ts
                           ELSE \E inference_ts \in Clock(recv_ts) :
                                  /\ now' = inference_ts
                                  /\ IF handler[c] # "open"
                                       THEN Except(c, l, taken, "send")
                                       ELSE /\ loops' = taken
                                            /\ Send(c, ResultMsg(c, n, frame_ts, capture_ts,
                                                                 recv_ts, inference_ts))
                                            /\ UNCHANGED <<handler, websocket_connections,
                                                           peer_connections, pcs>>
    /\ UNCHANGED <<received, last, frame_queue, processing, call>>

Next ==
    \/ \E c \in Conns : Connect(c)
    \/ \E c \in Conns : Close(c)
    \/ \E c \in Conns : BadMessage(c)
    \/ \E c \in Conns : HandleOffer(c)
    \/ \E c \in Conns : HandleAnswer(c)
    \/ \E c \in Conns : HandleIceCandidate(c)
    \/ \E c \in Conns : StartReceiving(c)
    \/ \E c \in Conns : UnknownMessage(c)
    \/ \E c \in Conns, p \in 1..MaxPcs, kind \in {"video", "audio"} : OnTrack(c, p, kind)
    \/ \E c \in Conns, p \in 1..MaxPcs, candidate \in BOOLEAN :
          OnIceCandidate(c, p, candidate)
    \/ \E c \in Conns, l \in 1..MaxLoops : Iterate(c, l)

Spec == Init /\ [][Next]_vars

\* track.recv of loop l of connection c raises because the peer connection of
\* its track has been closed
RecvAfterClose(c, l) ==
    /\ l \in 1..Len(loops[c])
    /\ pcs[c][loops[c][l].pc].closed
    /\ Iterate(c, l)
    /\ loops'[c][l].cause = "recv"

\* The event loop runs every coroutine that can continue: a loop waiting in
\* track.recv on a closed peer connection gets its exception and handles it.
\* Nothing makes the remote peer send a frame, a message or a track.
FairSpec ==
    Spec /\ \A c \in Conns : \A l \in 1..MaxLoops : WF_vars(RecvAfterClose(c, l))

\* ---- ObjectDetector.postprocess ---------------------------------------------
\* A tensor is its shape and its values in row-major order, the values in
\* tenths.  A detection keeps its numbers exact: score = score_n / score_d,
\* and every coordinate is its field divided by den.
Unknown == -1           \* the label "unknown"; other labels are indices

Ndim(t) == Len(t.shape)

\* t.size
Size(t) == Len(t.data)

\* t.flatten()[i]
Field(t, i) == t.data[i + 1]

\* int(v) of a float v: the fraction is cut off
IntOf(v) == IF v >= 0 THEN v \div Unit ELSE -((-v) \div Unit)

\* max(0, v) and min(1, v) of a coordinate v / den
Max0(v) == IF v < 0 THEN 0 ELSE v
Min1(v, den) == IF v > den THEN den ELSE v

\* np.argmax of the n values from index from on: the first of the largest
ArgMax(t, from, n) ==
    CHOOSE k \in 0..(n - 1) :
        \A j \in 0..(n - 1) :
            /\ Field(t, from + j) <= Field(t, from + k)
            /\ j < k => Field(t, from + j) < Field(t, from + k)

\* self.class_names[class_id] raises IndexError
LabelRaises(class_id) == class_id < -NumClasses

\* self.class_names[class_id] if class_id < len(self.class_names) else "unknown";
\* a negative index counts from the end of the list
Label(class_id) ==
    IF class_id >= NumClasses THEN Unknown
    ELSE IF class_id >= 0 THEN class_id
    ELSE NumClasses + class_id

Skip == [kind |-> "skip"]
Raise == [kind |-> "raise"]
Keep(det) == [kind |-> "keep", det |-> det]

\* the body of the loop over preds for the row that starts at base and has
\* F fields: x_center, y_center, width, height, confidence, class scores
DenseRow(t, base, F, thr) ==
    LET x == Field(t, base)
        y == Field(t, base + 1)
        w == Field(t, base + 2)
        h == Field(t, base + 3)
        confidence == Field(t, base + 4)
        class_id == ArgMax(t, base + 5, F - 5)
        class_score == Field(t, base + 5 + class_id)
        den == 2 * Unit * InputSize
    IN IF confidence <= thr THEN Skip
       ELSE IF class_score <= thr THEN Skip
       ELSE Keep([label |-> Label(class_id),
                  score_n |-> confidence * class_score, score_d |-> Unit * Unit,
                  xmin |-> Max0(2 * x - w), ymin |-> Max0(2 * y - h),
                  xmax |-> Min1(2 * x + w, den), ymax |-> Min1(2 * y + h, den),
                  den |-> den])

\* the body of the loop over pred_box: batch_id, class, score, xmin, ymin,
\* xmax, ymax
RegionRow(t, base, F, thr) ==
    LET class_id == IntOf(Field(t, base + 1))
        score == Field(t, base + 2)
    IN IF score <= thr THEN Skip
       ELSE IF LabelRaises(class_id) THEN Raise
       ELSE Keep([label |-> Label(class_id),
                  score_n |-> score, score_d |-> Unit,
                  xmin |-> Field(t, base + 3), ymin |-> Field(t, base + 4),
                  xmax |-> Field(t, base + 5), ymax |-> Field(t, base + 6),
                  den |-> Unit])

\* the body of the loop of the fallback: x, y, w, h, conf, class
FlatRow(t, off, F, thr) ==
    LET x == Field(t, off)
        y == Field(t, off + 1)
        w == Field(t, off + 2)
        h == Field(t, off + 3)
        conf == Field(t, off + 4)
        cls == IntOf(Field(t, off + 5))
        den == 2 * Unit
    IN IF conf <= thr THEN Skip
       ELSE IF LabelRaises(cls) THEN Raise
       ELSE Keep([label |-> Label(cls),
                  score_n |-> conf, score_d |-> Unit,
                  xmin |-> Max0(2 * x - w), ymin |-> Max0(2 * y - h),
                  xmax |-> Min1(2 * x + w, den), ymax |-> Min1(2 * y + h, den),
                  den |-> den])

Row(branch, t, base, F, thr) ==
    IF branch = "dense" THEN DenseRow(t, base, F, thr)
    ELSE IF branch = "region" THEN RegionRow(t, base, F, thr)
    ELSE FlatRow(t, base, F, thr)

\* return detections
Return(acc) == [detections |-> acc, raised |-> FALSE]

\* an except clause that logs the exception and raises it again
OuterExcept_Reraises(acc) == [detections |-> acc, raised |-> TRUE]

\* except Exception as e: the exception is logged, and the return statement
\* after the try statement returns the list built so far
OuterExcept(acc) == Return(acc)

\* The loop of a branch from row i on, n rows of F fields, acc the list
\* built so far, up to the return statement of the branch.  An exception
\* leaves the loop for the outer except clause.
RECURSIVE Rows(_, _, _, _, _, _, _)
Rows(branch, t, thr, i, n, F, acc) ==
    IF i = n THEN Return(acc)
    ELSE LET r == Row(branch, t, i * F, F, thr)
         IN IF r.kind = "raise" THEN OuterExcept(acc)
            ELSE Rows(branch, t, thr, i + 1, n, F,
                      IF r.kind = "keep" THEN Append(acc, r.det) ELSE acc)

\* the branch postprocess takes for tensor t, "none" when no shape matches
Branch(t) ==
    IF Ndim(t) = 3 /\ t.shape[3] >= 6 THEN "dense"
    ELSE IF Ndim(t) = 4 /\ t.shape[3] = 1 /\ t.shape[4] >= 7 THEN "region"
    ELSE IF Size(t) % 6 = 0 THEN "flat"
    ELSE "none"

\* postprocess(outs, thr): the list it returns and whether an exception left
\* it.  Indexing an empty list or an empty axis raises IndexError inside the
\* try statement.
postprocess(outs, thr) ==
    IF Len(outs) = 0 THEN OuterExcept(<< >>)
    ELSE LET out0 == outs[1]
         IN IF Branch(out0) = "dense"
              THEN IF out0.shape[1] = 0 THEN OuterExcept(<< >>)
                   ELSE Rows("dense", out0, thr, 0, out0.shape[2], out0.shape[3], << >>)
            ELSE IF Branch(out0) = "region"
              THEN IF out0.shape[1] = 0 \/ out0.shape[2] = 0 THEN OuterExcept(<< >>)
                   ELSE Rows("region", out0, thr, 0, out0.shape[3], out0.shape[4], << >>)
            ELSE IF Branch(out0) = "flat"
              THEN Rows("flat", out0, thr, 0, Size(out0) \div 6, 6, << >>)
            ELSE Return(<< >>)

\* ---- calls of postprocess ------------------------------------------------------
RECURSIVE Flatten(_)
\* the rows one after the other
Flatten(rows) == IF rows = << >> THEN << >> ELSE Head(rows) \o Flatten(Tail(rows))

TensorOf(shape, rows) == [shape |-> shape, data |-> Flatten(rows)]

Thresholds == {3, DefaultThreshold}

\* rows x_center, y_center, width, height, confidence, one class score
DenseRows ==
    {<<x, 5, w, 2, conf, cls>> :
        x \in {5, 4000}, w \in {-2, 0, 2}, conf \in {3, 6, 9}, cls \in {6, 9}}

\* shapes (1, n, 6), and (1, 1, 7) with two class scores
DenseTensors ==
    UNION {{TensorOf(<<1, n, 6>>, rs) : rs \in [1..n -> DenseRows]} : n \in 1..MaxRows}
    \cup {TensorOf(<<1, 1, 7>>, <<<<5, 5, 2, 2, 9, a, b>>>>) : a, b \in {3, 6, 9}}

\* rows batch_id, class, score, xmin, ymin, xmax, ymax
RegionRows ==
    {<<0, cls, score, xmin, 2, xmax, 8>> :
        cls \in {0, 10, 800, -10, -900}, score \in {3, 6},
        xmin \in {2, 8}, xmax \in {6, 12}}

\* shape (1, 1, n, 7)
RegionTensors ==
    UNION {{TensorOf(<<1, 1, n, 7>>, rs) : rs \in [1..n -> RegionRows]} : n \in 1..MaxRows}

\* shape (1, 1, 6, 7): 42 values, six equal rows
SixRowTensors ==
    {TensorOf(<<1, 1, 6, 7>>, [i \in 1..6 |-> <<0, 0, score, 2, ymin, 6, 8>>]) :
        score \in {3, 6}, ymin \in {2, 6}}

\* rows x, y, w, h, conf, class
FlatRows ==
    {<<x, 5, w, 2, conf, cls>> :
        x \in {5, 12}, w \in {-2, 0, 2}, conf \in {3, 6}, cls \in {0, 800, -10, -900}}

\* shape (6 n,)
FlatTensors ==
    UNION {{TensorOf(<<6 * n>>, rs) : rs \in [1..n -> FlatRows]} : n \in 1..MaxRows}

\* shapes no branch is written for: five values, an empty batch, rows of
\* five fields
OddTensors ==
    {TensorOf(<<5>>, <<<<5, 5, 2, 2, 9>>>>),
     TensorOf(<<0, 1, 6>>, << >>),
     TensorOf(<<1, 2, 5>>, <<<<5, 5, 2, 2, 9>>, <<5, 5, 2, 2, 9>>>>)}

Tensors ==
    DenseTensors \cup RegionTensors \cup SixRowTensors \cup FlatTensors \cup OddTensors

\* a call postprocess(outputs, conf_threshold) about to start
PostInit ==
    /\ ServerInit
    /\ outputs \in {<<t>> : t \in Tensors} \cup {<< >>}
    /\ conf_threshold \in Thresholds
    /\ detections = << >>
    /\ returned = FALSE
    /\ raised = FALSE

\* the call runs and ends, with a return or with an exception
Postprocess ==
    /\ ~returned /\ ~raised
    /\ detections' = postprocess(outputs, conf_threshold).detections
    /\ raised' = postprocess(outputs, conf_threshold).raised
    /\ returned' = ~postprocess(outputs, conf_threshold).raised
    /\ UNCHANGED <<outputs, conf_threshold, server>>

PostNext == Postprocess

PostSpec == PostInit /\ [][PostNext]_vars

\* ---- observations used by the properties ------------------------------------
\* the messages of one type sent on connection c
Sent(c, type) == {i \in 1..Len(out[c]) : out[c][i].type = type}

\* number of answers sent on connection c
Answers(c) == Cardinality(Sent(c, "answer"))

\* the frame ids 2, 4, ... of the first n frames
RECURSIVE EveryNth(_)
EveryNth(n) ==
    IF n = 0 THEN << >>
    ELSE IF n % SelectEvery = 0 THEN Append(EveryNth(n - 1), n)
    ELSE EveryNth(n - 1)

\* ---- C1 ---------------------------------------------------------------------
\* C1: once the handler of a connection has ended, the registry holds neither
\* its websocket entry nor a peer-connection entry for it, and every peer
\* connection created for it has been closed.
C1_CleanupOnClose ==
    \A c \in Conns :
        handler[c] = "done" =>
            /\ c \notin websocket_connections
            /\ c \notin DOMAIN peer_connections
            /\ \A p \in 1..Len(pcs[c]) : pcs[c][p].closed

\* ---- C2 ---------------------------------------------------------------------
\* C2: at most one peer connection created for a connection is not yet closed.
C2_OneActiveHandle ==
    \A c \in Conns :
        Cardinality({p \in 1..Len(pcs[c]) : ~pcs[c][p].closed}) <= 1

\* ---- C3 ---------------------------------------------------------------------
\* C3: handling an answer message on a session in IDLE changes neither the
\* session state nor the registry tables, sends nothing and leaves the
\* connection open.
C3_AnswerInIdleIsNoOp ==
    [][\A c \in Conns :
         (SessionState(c) = "IDLE" /\ HandleAnswer(c)) =>
             /\ SessionState(c)' = "IDLE"
             /\ handler'[c] = "open"
             /\ UNCHANGED <<websocket_connections, peer_connections, pcs,
                            loops, out>>]_vars

\* the latest message was an answer, no connection has ever had a peer
\* connection, and a session is in IDLE
C3_Witness ==
    /\ last = "answer"
    /\ \A c \in Conns : pcs[c] = << >>
    /\ \E c \in Conns : SessionState(c) = "IDLE"

\* ---- C4 ---------------------------------------------------------------------
\* C4: an offer received after the session left IDLE starts no negotiation:
\* over the life of a connection at most one peer connection is created for it
\* and at most one answer is sent on it.
C4_OfferOnlyInIdle ==
    \A c \in Conns :
        /\ Len(pcs[c]) <= 1
        /\ Answers(c) <= 1

\* ---- C5 ---------------------------------------------------------------------
\* C5: an accepted offer in IDLE sends exactly one answer; an accepted
\* ice_candidate is forwarded to the peer connection, leaves the session state
\* alone and sends nothing; a video track starts a processing loop bound to it
\* and the session is STREAMING; a track of another kind starts no loop.
C5_HappyPath ==
    [][\A c \in Conns :
         /\ (SessionState(c) = "IDLE" /\ HandleOffer(c) /\ handler'[c] = "open") =>
                /\ Answers(c)' = 1
                /\ Len(out'[c]) = Len(out[c]) + 1
                /\ SessionState(c)' = "OFFER_RECEIVED"
         /\ (c \in DOMAIN peer_connections /\ HandleIceCandidate(c)
               /\ handler'[c] = "open") =>
                /\ pcs'[c][peer_connections[c]].ice = pcs[c][peer_connections[c]].ice + 1
                /\ SessionState(c)' = SessionState(c)
                /\ out' = out
         /\ \A p \in 1..Len(pcs[c]) :
              /\ (OnTrack(c, p, "video") /\ handler[c] = "open") =>
                     /\ loops'[c] = Append(loops[c], NewLoop(p))
                     /\ SessionState(c)' = "STREAMING"
              /\ OnTrack(c, p, "audio") => loops' = loops]_vars

\* one offer and three candidates were all the messages of the run, then a
\* video track arrived: one answer, a loop bound to the track, STREAMING
C5_Witness ==
    \E c \in Conns :
        /\ received = 4
        /\ Len(pcs[c]) = 1
        /\ c \in DOMAIN peer_connections
        /\ pcs[c][1].ice = 3
        /\ Answers(c) = 1
        /\ \E l \in RunningLoops(c) : loops[c][l].pc = peer_connections[c]
        /\ SessionState(c) = "STREAMING"

\* ---- C6 ---------------------------------------------------------------------
\* C6: after an ice_candidate message has been handled, accepted or not, the
\* session state is unchanged, the connection is open and its registry
\* entries are still present.
C6_IceFailureIgnored ==
    [][\A c \in Conns :
         HandleIceCandidate(c) =>
             /\ handler'[c] = "open"
             /\ SessionState(c)' = SessionState(c)
             /\ c \in websocket_connections'
             /\ peer_connections' = peer_connections]_vars

\* ---- C7 ---------------------------------------------------------------------
\* C7: a failure while converting or detecting one frame never stops the
\* processing loop of the track.
C7_FrameFailureKeepsLoop ==
    \A c \in Conns : \A l \in 1..Len(loops[c]) :
        loops[c][l].status = "stopped" =>
            loops[c][l].cause \notin {"convert", "detect"}

\* ---- C8 ---------------------------------------------------------------------
\* C8: after M frames have arrived on a track without error, the frames
\* selected for processing are exactly those with arrival index 2, 4, ...,
\* floor(M/2) of them, and no other frame produced a result.
C8_Decimation ==
    \A c \in Conns :
        /\ \A l \in 1..Len(loops[c]) :
             loops[c][l].cause \in {"none", "recv"} =>
                /\ Len(loops[c][l].selected) = loops[c][l].frame_count \div 2
                /\ loops[c][l].selected = EveryNth(loops[c][l].frame_count)
        /\ \A i \in Sent(c, "detection_result") :
             \E l \in 1..Len(loops[c]) :
                \E j \in 1..Len(loops[c][l].selected) :
                    loops[c][l].selected[j] = out[c][i].frame_id

\* four frames arrived without error: frames 2 and 4 were selected and
\* produced the two results of the connection
C8_Witness ==
    \E c \in Conns : \E l \in 1..Len(loops[c]) :
        /\ loops[c][l].cause = "none"
        /\ loops[c][l].frame_count = 4
        /\ loops[c][l].selected = <<2, 4>>
        /\ Cardinality(Sent(c, "detection_result")) = 2

\* ---- C9 ---------------------------------------------------------------------
\* C9: the frame buffer never holds more than its capacity, and a frame
\* selected for processing is accepted into it as its newest element,
\* evicting the oldest buffered frame when the buffer is full.
C9_Backpressure ==
    [][/\ Len(frame_queue) <= QueueMaxSize
       /\ \A c \in Conns : \A l \in 1..Len(loops[c]) :
            Len(loops'[c][l].selected) > Len(loops[c][l].selected) =>
                LET n == loops'[c][l].frame_count
                IN frame_queue' = IF Len(frame_queue) = QueueMaxSize
                                    THEN Append(Tail(frame_queue), n)
                                    ELSE Append(frame_queue, n)]_vars

\* ---- C10 --------------------------------------------------------------------
\* C10: the processor used for the frames of one connection is never the one
\* used for the frames of another connection, and a connection never has two
\* processing loops running at once.
C10_PipelineOwnership ==
    /\ \A c1, c2 \in Conns :
         c1 # c2 =>
            \A l1 \in 1..Len(loops[c1]), l2 \in 1..Len(loops[c2]) :
                (loops[c1][l1].proc # 0 /\ loops[c2][l2].proc # 0)
                    => loops[c1][l1].proc # loops[c2][l2].proc
    /\ \A c \in Conns : Cardinality(RunningLoops(c)) <= 1

\* ---- C11 --------------------------------------------------------------------
\* C11: when the peer connection rejects an offer, no answer is sent, the
\* session is CLOSED, the peer connection created for that offer is closed and
\* the connection has no entry left in either registry table.
C11_NegotiationFailure ==
    [][\A c \in Conns :
         (HandleOffer(c) /\ handler'[c] = "done") =>
             /\ out' = out
             /\ SessionState(c)' = "CLOSED"
             /\ Len(pcs'[c]) = Len(pcs[c]) + 1
             /\ pcs'[c][Len(pcs'[c])].closed
             /\ c \notin websocket_connections'
             /\ c \notin DOMAIN peer_connections']_vars

\* the only offer of a connection was rejected: its handler has ended, its
\* peer connection never got a remote description and is closed, no answer
C11_Witness ==
    \E c \in Conns :
        /\ handler[c] = "done"
        /\ Len(pcs[c]) = 1
        /\ ~pcs[c][1].remote
        /\ pcs[c][1].closed
        /\ Answers(c) = 0

\* ---- C12 --------------------------------------------------------------------
\* C12: a message of an unknown type, and a start_receiving message, change
\* neither the session state nor the registry tables, send nothing and leave
\* the connection open.
C12_UnknownIgnored ==
    [][\A c \in Conns :
         (UnknownMessage(c) \/ StartReceiving(c)) =>
             /\ SessionState(c)' = SessionState(c)
             /\ handler'[c] = "open"
             /\ UNCHANGED <<websocket_connections, peer_connections, pcs,
                            loops, out>>]_vars

\* the only connection of the run holds a peer connection, no loop was ever
\* started, and the latest message it handled was of an unknown type
C12_Witness ==
    /\ last = "other"
    /\ handler = [c \in Conns |-> IF c = 1 THEN "open" ELSE "absent"]
    /\ SessionState(1) = "OFFER_RECEIVED"
    /\ LoopsStarted = 0

\* ---- C13 --------------------------------------------------------------------
\* what the server holds for connection c
Holdings(c) ==
    <<handler[c], c \in websocket_connections,
      IF c \in DOMAIN peer_connections THEN peer_connections[c] ELSE 0,
      pcs[c], loops[c], out[c]>>

\* a step in which the handler of connection c ends or one of its loops stops
FailureOf(c) ==
    \/ handler[c] = "open" /\ handler'[c] = "done"
    \/ \E l \in 1..Len(loops[c]) :
         loops[c][l].status = "running" /\ loops'[c][l].status = "stopped"

\* C13: a failure on connection A and the cleanup of A leave the websocket
\* entry, the peer connection and the loops of every other live connection B
\* as they were.
C13_FailureIsolation ==
    [][\A a, b \in Conns :
         (a # b /\ handler[b] = "open" /\ FailureOf(a)) =>
             Holdings(b)' = Holdings(b)]_vars

\* connection 2 is live with an open peer connection and a running loop,
\* while connection 1 has ended after a failed negotiation
C13_Witness ==
    /\ handler[1] = "done" /\ Len(pcs[1]) = 1 /\ ~pcs[1][1].remote
    /\ handler[2] = "open"
    /\ 2 \in websocket_connections
    /\ 2 \in DOMAIN peer_connections
    /\ ~pcs[2][peer_connections[2]].closed
    /\ RunningLoops(2) # {}

\* ---- C14 --------------------------------------------------------------------
\* C14: every detection postprocess returns has a score above the threshold.
C14_ScoreAboveThreshold ==
    returned =>
        \A i \in 1..Len(detections) :
            detections[i].score_n * Unit > conf_threshold * detections[i].score_d

\* ---- C15 --------------------------------------------------------------------
\* C15: every detection postprocess returns has a box inside the unit square
\* with xmin < xmax and ymin < ymax.
C15_BoxInUnitSquare ==
    returned =>
        \A i \in 1..Len(detections) :
            LET d == detections[i]
            IN /\ 0 <= d.xmin /\ d.xmin < d.xmax /\ d.xmax <= d.den
               /\ 0 <= d.ymin /\ d.ymin < d.ymax /\ d.ymax <= d.den

\* ---- C16 --------------------------------------------------------------------
\* C16: once the handler of a connection has ended, every processing loop
\* started for that connection eventually stops, and no detection result is
\* sent on a connection all of whose loops have stopped.
C16_LoopsStopAfterClose ==
    /\ \A c \in Conns : \A l \in 1..MaxLoops :
         (handler[c] = "done" /\ l \in RunningLoops(c))
             ~> (l \in 1..Len(loops[c]) /\ loops[c][l].status = "stopped")
    /\ [][\A c \in Conns :
            RunningLoops(c) = {} =>
                Sent(c, "detection_result")' = Sent(c, "detection_result")]_vars

\* ---- C17 --------------------------------------------------------------------
\* the frame ids of the detection results sent on connection c, in order
RECURSIVE FrameIds(_, _)
FrameIds(c, n) ==
    IF n = 0 THEN << >>
    ELSE IF out[c][n].type = "detection_result"
      THEN Append(FrameIds(c, n - 1), out[c][n].frame_id)
    ELSE FrameIds(c, n - 1)

\* C17: on every connection each detection result carries a frame id greater
\* than the frame id of every detection result sent before it on that
\* connection.
C17_FrameIdsIncrease ==
    \A c \in Conns :
        LET ids == FrameIds(c, Len(out[c]))
        IN \A i, j \in 1..Len(ids) : i < j => ids[i] < ids[j]

\* ---- C18 --------------------------------------------------------------------
\* C18: when track.recv raises, the loop of that track stops and nothing else
\* changes: the other loops, the handler of the connection, its registry
\* entries and its peer connections are as before, so that the next message
\* of the connection is still handled.
C18_PullFailureStopsOnlyLoop ==
    [][\A c \in Conns : \A l \in 1..Len(loops[c]) :
         (loops[c][l].status = "running" /\ loops'[c][l].cause = "recv"
            /\ Iterate(c, l)) =>
             /\ loops'[c][l].status = "stopped"
             /\ \A k \in 1..Len(loops[c]) : k # l => loops'[c][k] = loops[c][k]
             /\ \A x \in Conns : x # c => loops'[x] = loops[x]
             /\ UNCHANGED <<handler, websocket_connections, peer_connections,
                            pcs, out>>]_vars

\* the loop of a track has stopped on a failed pull after two frames, its
\* connection is open and still holds its peer connection, and a message was
\* handled on it after the first result had been sent
C18_Witness ==
    \E c \in Conns : \E l \in 1..Len(loops[c]) :
        /\ loops[c][l].cause = "recv"
        /\ loops[c][l].frame_count = 2
        /\ handler[c] = "open"
        /\ c \in websocket_connections
        /\ c \in DOMAIN peer_connections
        /\ ~pcs[c][peer_connections[c]].closed
        /\ Len(out[c]) = 3
        /\ out[c][2].type = "detection_result"
        /\ out[c][3].type = "answer"

\* ---- C19 --------------------------------------------------------------------
\* C19: every message sent on a connection was computed for that connection:
\* an answer by the handle_offer call of that connection, a candidate by one
\* of its peer connections, a detection result by a loop of one of its tracks.
C19_MessageRouting ==
    \A c \in Conns : \A i \in 1..Len(out[c]) : out[c][i].conn = c

\* two connections are open; one has received its answer and a detection
\* result, the other its answer
C19_Witness ==
    \E a, b \in Conns :
        /\ a # b
        /\ handler[a] = "open" /\ handler[b] = "open"
        /\ Sent(a, "answer") # {}
        /\ Sent(a, "detection_result") # {}
        /\ Sent(b, "answer") # {}

\* ---- C20 --------------------------------------------------------------------
\* C20: in every detection result capture_ts is the capture time the remote
\* client attached to the frame, and capture_ts <= recv_ts <= inference_ts.
C20_Timestamps ==
    \A c \in Conns : \A i \in Sent(c, "detection_result") :
        /\ out[c][i].capture_ts = out[c][i].frame_ts
        /\ out[c][i].capture_ts <= out[c][i].recv_ts
        /\ out[c][i].recv_ts <= out[c][i].inference_ts

\* ---- C21 --------------------------------------------------------------------
\* C21: for a tensor of shape (1, 1, N, 7) with N >= 1 (and no negative class
\* index, see C22) postprocess returns what the region-list reading of the
\* tensor gives and nothing the flat reading would give: exactly the rows
\* whose score is above the threshold, in row order, each with its own score
\* and box.
C21_RegionListRows ==
    (returned /\ outputs # << >> /\ Ndim(outputs[1]) = 4
       /\ outputs[1].shape[1] = 1 /\ outputs[1].shape[2] = 1
       /\ outputs[1].shape[3] >= 1 /\ outputs[1].shape[4] = 7
       /\ \A i \in 0..(outputs[1].shape[3] - 1) :
             IntOf(Field(outputs[1], 7 * i + 1)) >= 0) =>
        LET t == outputs[1]
            above == {i \in 0..(t.shape[3] - 1) : Field(t, 7 * i + 2) > conf_threshold}
            Nth(k) == CHOOSE i \in above : Cardinality({j \in above : j < i}) = k - 1
        IN /\ Len(detections) = Cardinality(above)
           /\ \A k \in 1..Len(detections) :
                LET d == detections[k]
                    base == 7 * Nth(k)
                IN /\ d.score_n * Unit = Field(t, base + 2) * d.score_d
                   /\ d.xmin * Unit = Field(t, base + 3) * d.den
                   /\ d.ymin * Unit = Field(t, base + 4) * d.den
                   /\ d.xmax * Unit = Field(t, base + 5) * d.den
                   /\ d.ymax * Unit = Field(t, base + 6) * d.den

\* ---- C22 --------------------------------------------------------------------
\* C22: in the region-list and the flat branch every candidate above the
\* threshold is returned, in order, whatever the class indices of the tensor
\* are, and its label is its class index i when 0 <= i < 80 and "unknown"
\* for every other i, negative ones included.
C22_LabelMapping ==
    (returned /\ outputs # << >> /\ Branch(outputs[1]) \in {"region", "flat"}) =>
        LET t == outputs[1]
            region == Branch(t) = "region"
            F == IF region THEN t.shape[4] ELSE 6
            n == IF region THEN t.shape[3] ELSE Size(t) \div 6
            score(i) == Field(t, F * i + (IF region THEN 2 ELSE 4))
            class(i) == IntOf(Field(t, F * i + (IF region THEN 1 ELSE 5)))
            above == {i \in 0..(n - 1) : score(i) > conf_threshold}
            Nth(k) == CHOOSE i \in above : Cardinality({j \in above : j < i}) = k - 1
        IN /\ Len(detections) = Cardinality(above)
           /\ \A k \in 1..Len(detections) :
                detections[k].label =
                    IF 0 <= class(Nth(k)) /\ class(Nth(k)) < NumClasses
                      THEN class(Nth(k))
                      ELSE Unknown

\* ---- C23 --------------------------------------------------------------------
\* C23: for a tensor of shape (batch, n, F) with F >= 6 whose x_center,
\* y_center, width and height lie in [0, 1], the candidates with objectness
\* above the threshold and best class score above the threshold are returned,
\* one detection each and in order, with label = argmax of the class scores,
\* score = objectness * class score and box = (x - w/2, y - h/2, x + w/2,
\* y + h/2) clamped to [0, 1].
C23_DenseConversion ==
    (returned /\ outputs # << >> /\ Ndim(outputs[1]) = 3
       /\ outputs[1].shape[1] >= 1 /\ outputs[1].shape[3] >= 6
       /\ \A i \in 0..(outputs[1].shape[2] - 1) : \A f \in 0..3 :
             /\ 0 <= Field(outputs[1], outputs[1].shape[3] * i + f)
             /\ Field(outputs[1], outputs[1].shape[3] * i + f) <= Unit) =>
        LET t == outputs[1]
            F == t.shape[3]
            best(i) == ArgMax(t, F * i + 5, F - 5)
            above == {i \in 0..(t.shape[2] - 1) :
                         /\ Field(t, F * i + 4) > conf_threshold
                         /\ Field(t, F * i + 5 + best(i)) > conf_threshold}
            Nth(k) == CHOOSE i \in above : Cardinality({j \in above : j < i}) = k - 1
            Clamp(v) == IF v < 0 THEN 0 ELSE IF v > 2 * Unit THEN 2 * Unit ELSE v
        IN /\ Len(detections) = Cardinality(above)
           /\ \A k \in 1..Len(detections) :
                LET d == detections[k]
                    base == F * Nth(k)
                    x == Field(t, base)
                    y == Field(t, base + 1)
                    w == Field(t, base + 2)
                    h == Field(t, base + 3)
                IN /\ d.label = best(Nth(k))
                   /\ d.score_n * Unit * Unit
                        = Field(t, base + 4) * Field(t, base + 5 + best(Nth(k))) * d.score_d
                   /\ d.xmin * 2 * Unit = Clamp(2 * x - w) * d.den
                   /\ d.ymin * 2 * Unit = Clamp(2 * y - h) * d.den
                   /\ d.xmax * 2 * Unit = Clamp(2 * x + w) * d.den
                   /\ d.ymax * 2 * Unit = Clamp(2 * y + h) * d.den

====
